---- MODULE Spec2Model ----
(***************************************************************************)
(* Contract-verification request adapter of                                *)
(* src/ui/contractVerification/utils.ts: the verification-method registry, *)
(* the request body builder prepareRequestBody and the error-field         *)
(* remapper formatSocketErrors.                                            *)
(*                                                                         *)
(* JavaScript values are tagged records ([t |-> "string", v |-> ...]); a   *)
(* form or a plain body is a function from property names to values, so a  *)
(* property that is present with the value undefined is told apart from a  *)
(* property that is absent.  A FormData container is the ordered list of   *)
(* its entries.  Error message strings are sequences of characters.        *)
(***************************************************************************)
EXTENDS Integers, Sequences, FiniteSets, TLC

VARIABLES data, body, methods, errors, formErrors

vars == <<data, body, methods, errors, formErrors>>

(***************************************************************************)
(* Bounds of the input spaces.                                             *)
(***************************************************************************)
MaxLibraries == 2
MaxFiles == 2
MaxErrorKeys == 2
MaxMessages == 2

(***************************************************************************)
(* JavaScript values.                                                      *)
(***************************************************************************)
Undefined == [t |-> "undefined"]
Null == [t |-> "null"]
Str(s) == [t |-> "string", v |-> s]
Bool(b) == [t |-> "boolean", v |-> b]
Num(n) == [t |-> "number", v |-> n]
Arr(s) == [t |-> "array", v |-> s]
Option(val) == [t |-> "object", value |-> Str(val)]
File(name, content) == [t |-> "file", name |-> name, content |-> content]
ContractLibrary(name, address) == [name |-> name, address |-> address]

\* ToBoolean: undefined, null, false, 0 and "" are falsy, every object is truthy.
Truthy(x) ==
  CASE x.t = "undefined" -> FALSE
    [] x.t = "null" -> FALSE
    [] x.t = "boolean" -> x.v
    [] x.t = "number" -> x.v # 0
    [] x.t = "string" -> x.v # ""
    [] OTHER -> TRUE

\* String(x) for the primitives the builder hands to FormData.set.
ToStringJs(x) ==
  CASE x.t = "string" -> x
    [] x.t = "boolean" -> Str(IF x.v THEN "true" ELSE "false")
    [] x.t = "number" -> Str(ToString(x.v))
    [] x.t = "null" -> Str("null")
    [] OTHER -> Str("undefined")

\* data.f : a property that is missing reads as undefined.
Get(d, f) == IF f \in DOMAIN d THEN d[f] ELSE Undefined

\* x?.value
OptionalValue(x) ==
  IF x.t \in {"undefined", "null"} THEN Undefined
  ELSE IF "value" \in DOMAIN x THEN x.value ELSE Undefined

(***************************************************************************)
(* Verification-method registry.                                           *)
(***************************************************************************)
SUPPORTED_VERIFICATION_METHODS ==
  << "flattened-code", "standard-input", "sourcify", "multi-part", "vyper-code", "vyper-multi-part" >>

SupportedTags == { SUPPORTED_VERIFICATION_METHODS[i] : i \in 1..Len(SUPPORTED_VERIFICATION_METHODS) }

METHOD_LABELS ==
  [ m \in SupportedTags |->
      CASE m = "flattened-code" -> "Solidity (Flattened source code)"
        [] m = "standard-input" -> "Solidity (Standard JSON input)"
        [] m = "sourcify" -> "Solidity (Sourcify)"
        [] m = "multi-part" -> "Solidity (Multi-part files)"
        [] m = "vyper-code" -> "Vyper (Contract)"
        [] m = "vyper-multi-part" -> "Vyper (Multi-part files)" ]

Method(m) == [value |-> m, label |-> IF m \in SupportedTags THEN METHOD_LABELS[m] ELSE ""]

DefaultFlattenedCode ==
  [ method |-> Method("flattened-code"),
    is_yul |-> Bool(FALSE),
    name |-> Str(""),
    compiler |-> Null,
    evm_version |-> Null,
    is_optimization_enabled |-> Bool(TRUE),
    optimization_runs |-> Str("200"),
    code |-> Str(""),
    autodetect_constructor_args |-> Bool(TRUE),
    constructor_args |-> Str(""),
    libraries |-> Arr(<< >>) ]

DefaultStandardInput ==
  [ method |-> Method("standard-input"),
    name |-> Str(""),
    compiler |-> Null,
    sources |-> Arr(<< >>),
    autodetect_constructor_args |-> Bool(TRUE),
    constructor_args |-> Str("") ]

DefaultSourcify ==
  [ method |-> Method("sourcify"),
    sources |-> Arr(<< >>) ]

\* DefaultMultiPart with optimization switched off.
DefaultMultiPart_OptimizationOff ==
  [ method |-> Method("multi-part"),
    compiler |-> Null,
    evm_version |-> Null,
    is_optimization_enabled |-> Bool(FALSE),
    optimization_runs |-> Num(200),
    sources |-> Arr(<< >>),
    libraries |-> Arr(<< >>) ]

DefaultMultiPart ==
  [ method |-> Method("multi-part"),
    compiler |-> Null,
    evm_version |-> Null,
    is_optimization_enabled |-> Bool(TRUE),
    optimization_runs |-> Num(200),
    sources |-> Arr(<< >>),
    libraries |-> Arr(<< >>) ]

DefaultVyperCode ==
  [ method |-> Method("vyper-code"),
    name |-> Str(""),
    compiler |-> Null,
    code |-> Str(""),
    constructor_args |-> Str("") ]

DefaultVyperMultiPart ==
  [ method |-> Method("vyper-multi-part"),
    compiler |-> Null,
    evm_version |-> Null,
    sources |-> Arr(<< >>) ]

DEFAULT_VALUES ==
  [ m \in SupportedTags |->
      CASE m = "flattened-code" -> DefaultFlattenedCode
        [] m = "standard-input" -> DefaultStandardInput
        [] m = "sourcify" -> DefaultSourcify
        [] m = "multi-part" -> DefaultMultiPart
        [] m = "vyper-code" -> DefaultVyperCode
        [] m = "vyper-multi-part" -> DefaultVyperMultiPart ]

\* Array.prototype.indexOf, zero-based, -1 when the element is missing.
IndexOf(arr, x) ==
  IF \E i \in 1..Len(arr) : arr[i] = x
  THEN (CHOOSE i \in 1..Len(arr) : arr[i] = x /\ \A j \in 1..(i - 1) : arr[j] # x) - 1
  ELSE -1

isValidVerificationMethod(method) ==
  IF Truthy(method) /\ IndexOf(SUPPORTED_VERIFICATION_METHODS, method.v) # -1 THEN TRUE ELSE FALSE

\* sortVerificationMethods with the two comparisons exchanged.
sortVerificationMethods_Swapped(methodA, methodB) ==
  LET indexA == IndexOf(SUPPORTED_VERIFICATION_METHODS, methodA)
      indexB == IndexOf(SUPPORTED_VERIFICATION_METHODS, methodB)
  IN  IF indexA < indexB THEN 1
      ELSE IF indexA > indexB THEN -1
      ELSE 0

sortVerificationMethods(methodA, methodB) ==
  LET indexA == IndexOf(SUPPORTED_VERIFICATION_METHODS, methodA)
      indexB == IndexOf(SUPPORTED_VERIFICATION_METHODS, methodB)
  IN  IF indexA > indexB THEN 1
      ELSE IF indexA < indexB THEN -1
      ELSE 0

(***************************************************************************)
(* Request body builder.                                                   *)
(***************************************************************************)
PlainBody(fields) == [shape |-> "plain", fields |-> fields]
MultipartBody(entries) == [shape |-> "multipart", entries |-> entries]
NoBody == [shape |-> "none"]

\* result[name] = address on an object whose properties keep insertion order.
ObjectSet(object, name, address) ==
  IF \E i \in 1..Len(object) : object[i].name = name
  THEN [ i \in 1..Len(object) |->
           IF object[i].name = name THEN [name |-> name, address |-> address] ELSE object[i] ]
  ELSE Append(object, [name |-> name, address |-> address])

RECURSIVE Reduce(_, _)
Reduce(result, items) ==
  IF items = << >> THEN result
  ELSE Reduce(ObjectSet(result, Head(items).name, Head(items).address), Tail(items))

\* reduceLibrariesArray without the test of the length.
reduceLibrariesArray_NoLengthCheck(libraries) ==
  IF ~Truthy(libraries)
  THEN Undefined
  ELSE [t |-> "object", entries |-> Reduce(<< >>, libraries.v)]

reduceLibrariesArray(libraries) ==
  IF ~Truthy(libraries) \/ Len(libraries.v) = 0
  THEN Undefined
  ELSE [t |-> "object", entries |-> Reduce(<< >>, libraries.v)]

\* JSON.stringify of an object whose property values are strings.
RECURSIVE JSONProperties(_)
JSONProperties(entries) ==
  IF entries = << >> THEN ""
  ELSE "\"" \o Head(entries).name \o "\":\"" \o Head(entries).address \o "\""
         \o (IF Tail(entries) = << >> THEN "" ELSE "," \o JSONProperties(Tail(entries)))

JSONStringify(object) == Str("{" \o JSONProperties(object.entries) \o "}")

\* FormData.set(name, value): the first entry of that name is replaced and the
\* other entries of that name are removed; without one the entry is appended.
FormDataSet(entries, name, value) ==
  IF \E i \in 1..Len(entries) : entries[i].name = name
  THEN LET first == CHOOSE i \in 1..Len(entries) :
                      entries[i].name = name /\ \A j \in 1..(i - 1) : entries[j].name # name
           replaced == [entries EXCEPT ![first] = [name |-> name, value |-> value]]
           kept == SelectSeq([ i \in 1..Len(replaced) |-> i ],
                             LAMBDA i : i = first \/ replaced[i].name # name)
       IN  [ k \in 1..Len(kept) |-> replaced[kept[k]] ]
  ELSE Append(entries, [name |-> name, value |-> value])

\* FormData.set(name, value) with a value that is not a Blob: converted to a string.
SetString(entries, name, value) == FormDataSet(entries, name, ToStringJs(value))

\* FormData.set(name, blob, filename): the entry is a File of that name.
SetFile(entries, name, file, filename) == FormDataSet(entries, name, File(filename, file.content))

FileKey(index) == "files[" \o ToString(index) \o "]"

RECURSIVE AddFilesFrom(_, _, _)
AddFilesFrom(entries, files, index) ==
  IF index < Len(files)
  THEN AddFilesFrom(SetFile(entries, FileKey(index), files[index + 1], files[index + 1].name),
                    files, index + 1)
  ELSE entries

\* addFilesToFormData with a loop that starts at index 1.
addFilesToFormData_FromOne(entries, files) ==
  IF ~Truthy(files) THEN entries ELSE AddFilesFrom(entries, files.v, 1)

addFilesToFormData(entries, files) ==
  IF ~Truthy(files) THEN entries ELSE AddFilesFrom(entries, files.v, 0)

flattenedCodeBody(_data) ==
  PlainBody([ compiler_version |-> OptionalValue(Get(_data, "compiler")),
              source_code |-> Get(_data, "code"),
              is_optimization_enabled |-> Get(_data, "is_optimization_enabled"),
              is_yul_contract |-> Get(_data, "is_yul"),
              optimization_runs |-> Get(_data, "optimization_runs"),
              contract_name |-> Get(_data, "name"),
              libraries |-> reduceLibrariesArray(Get(_data, "libraries")),
              evm_version |-> OptionalValue(Get(_data, "evm_version")),
              autodetect_constructor_args |-> Get(_data, "autodetect_constructor_args"),
              constructor_args |-> Get(_data, "constructor_args") ])

\* standardInputBody returning a plain mapping when there is no file to upload.
standardInputBody_PlainWithoutFiles(_data) ==
  LET b1 == SetString(<< >>, "compiler_version", OptionalValue(Get(_data, "compiler")))
      b2 == SetString(b1, "contract_name", Get(_data, "name"))
      b3 == SetString(b2, "autodetect_constructor_args",
                      ToStringJs(Bool(Truthy(Get(_data, "autodetect_constructor_args")))))
      b4 == SetString(b3, "constructor_args", Get(_data, "constructor_args"))
  IN  IF ~Truthy(Get(_data, "sources")) \/ Get(_data, "sources").v = << >>
      THEN PlainBody([ i \in { b4[k].name : k \in 1..Len(b4) } |->
                         (CHOOSE e \in { b4[k] : k \in 1..Len(b4) } : e.name = i).value ])
      ELSE MultipartBody(addFilesToFormData(b4, Get(_data, "sources")))

standardInputBody(_data) ==
  LET b1 == SetString(<< >>, "compiler_version", OptionalValue(Get(_data, "compiler")))
      b2 == SetString(b1, "contract_name", Get(_data, "name"))
      b3 == SetString(b2, "autodetect_constructor_args",
                      ToStringJs(Bool(Truthy(Get(_data, "autodetect_constructor_args")))))
      b4 == SetString(b3, "constructor_args", Get(_data, "constructor_args"))
  IN  MultipartBody(addFilesToFormData(b4, Get(_data, "sources")))

\* sourcifyBody testing the chosen value instead of the chosen option.
sourcifyBody_ValueTruthy(_data) ==
  LET b1 == addFilesToFormData(<< >>, Get(_data, "sources"))
      b2 == IF Truthy(OptionalValue(Get(_data, "contract_index")))
            THEN SetString(b1, "chosen_contract_index", Get(_data, "contract_index").value)
            ELSE b1
  IN  MultipartBody(b2)

sourcifyBody(_data) ==
  LET b1 == addFilesToFormData(<< >>, Get(_data, "sources"))
      b2 == IF Truthy(Get(_data, "contract_index"))
            THEN SetString(b1, "chosen_contract_index", Get(_data, "contract_index").value)
            ELSE b1
  IN  MultipartBody(b2)

\* multiPartBody sending optimization_runs whether or not optimization is enabled.
multiPartBody_AlwaysRuns(_data) ==
  LET b1 == SetString(<< >>, "compiler_version", OptionalValue(Get(_data, "compiler")))
      b2 == SetString(b1, "evm_version", OptionalValue(Get(_data, "evm_version")))
      b3 == SetString(b2, "is_optimization_enabled",
                      ToStringJs(Bool(Truthy(Get(_data, "is_optimization_enabled")))))
      b4 == SetString(b3, "optimization_runs", Get(_data, "optimization_runs"))
      libraries == reduceLibrariesArray(Get(_data, "libraries"))
      b5 == IF Truthy(libraries) THEN SetString(b4, "libraries", JSONStringify(libraries)) ELSE b4
  IN  MultipartBody(addFilesToFormData(b5, Get(_data, "sources")))

multiPartBody(_data) ==
  LET b1 == SetString(<< >>, "compiler_version", OptionalValue(Get(_data, "compiler")))
      b2 == SetString(b1, "evm_version", OptionalValue(Get(_data, "evm_version")))
      b3 == SetString(b2, "is_optimization_enabled",
                      ToStringJs(Bool(Truthy(Get(_data, "is_optimization_enabled")))))
      b4 == IF Truthy(Get(_data, "is_optimization_enabled"))
            THEN SetString(b3, "optimization_runs", Get(_data, "optimization_runs"))
            ELSE b3
      libraries == reduceLibrariesArray(Get(_data, "libraries"))
      b5 == IF Truthy(libraries) THEN SetString(b4, "libraries", JSONStringify(libraries)) ELSE b4
  IN  MultipartBody(addFilesToFormData(b5, Get(_data, "sources")))

\* vyperCodeBody sending evm_version as the Solidity builders do.
vyperCodeBody_WithEvmVersion(_data) ==
  PlainBody([ compiler_version |-> OptionalValue(Get(_data, "compiler")),
              source_code |-> Get(_data, "code"),
              contract_name |-> Get(_data, "name"),
              evm_version |-> OptionalValue(Get(_data, "evm_version")),
              constructor_args |-> Get(_data, "constructor_args") ])

vyperCodeBody(_data) ==
  PlainBody([ compiler_version |-> OptionalValue(Get(_data, "compiler")),
              source_code |-> Get(_data, "code"),
              contract_name |-> Get(_data, "name"),
              constructor_args |-> Get(_data, "constructor_args") ])

vyperMultiPartBody(_data) ==
  LET b1 == SetString(<< >>, "compiler_version", OptionalValue(Get(_data, "compiler")))
      b2 == SetString(b1, "evm_version", OptionalValue(Get(_data, "evm_version")))
  IN  MultipartBody(addFilesToFormData(b2, Get(_data, "sources")))

\* defaultBody echoing the tag it does not know.
defaultBody_EchoMethod(_data) == PlainBody([ method |-> Str(_data.method.value) ])

defaultBody(_data) == PlainBody(<< >>)

prepareRequestBody(d) ==
  CASE d.method.value = "flattened-code" -> flattenedCodeBody(d)
    [] d.method.value = "standard-input" -> standardInputBody(d)
    [] d.method.value = "sourcify" -> sourcifyBody(d)
    [] d.method.value = "multi-part" -> multiPartBody(d)
    [] d.method.value = "vyper-code" -> vyperCodeBody(d)
    [] d.method.value = "vyper-multi-part" -> vyperMultiPartBody(d)
    [] OTHER -> defaultBody(d)

(***************************************************************************)
(* Error-field remapper.  An error payload is the ordered list of its      *)
(* properties, each a key and a list of message strings.                   *)
(***************************************************************************)
API_ERROR_TO_FORM_FIELD ==
  [ contract_source_code |-> "code",
    files |-> "sources",
    compiler_version |-> "compiler",
    constructor_arguments |-> "constructor_args",
    name |-> "name" ]

\* API_ERROR_TO_FORM_FIELD[key]: undefined for a key the dictionary lacks.
FormField(key) ==
  IF key \in DOMAIN API_ERROR_TO_FORM_FIELD THEN Str(API_ERROR_TO_FORM_FIELD[key]) ELSE Undefined

\* Array.prototype.join on an array of strings.
RECURSIVE Join(_, _)
Join(value, separator) ==
  IF value = << >> THEN << >>
  ELSE IF Len(value) = 1 THEN value[1]
  ELSE value[1] \o separator \o Join(Tail(value), separator)

\* formatSocketErrors joining the messages with a comma and a space.
formatSocketErrors_CommaSpace(payload) ==
  [ i \in 1..Len(payload) |->
      << FormField(payload[i].key), [message |-> Join(payload[i].value, << ",", " " >>)] >> ]

formatSocketErrors(payload) ==
  [ i \in 1..Len(payload) |->
      << FormField(payload[i].key), [message |-> Join(payload[i].value, << "," >>)] >> ]

NoPairs == [done |-> FALSE, pairs |-> << >>]

(***************************************************************************)
(* Form data handed to the builder: every field of a variant ranges over   *)
(* its default and other values; an optional field may be missing.         *)
(***************************************************************************)
SeqsUpTo(S, n) == UNION { [1..k -> S] : k \in 0..n }

Optional(name, x) == IF x = Undefined THEN << >> ELSE name :> x

Booleans == { Bool(TRUE), Bool(FALSE) }
CompilerInputs == { Null, Option("v0.8.17+commit.8df45f5f") }
EvmVersionInputs == { Null, Option("london") }
NameInputs == { Str(""), Str("Token") }
CodeInputs == { Str(""), Str("contract Token {}") }
ConstructorArgsInputs == { Str(""), Str("0x01") }
ContractIndexInputs == { Undefined, Option(""), Option("0"), Option("1") }
LibraryItems == { ContractLibrary(n, a) : n \in {"MathLib", "SafeLib"}, a \in {"0x01", "0x02"} }
LibrariesInputs == { Undefined } \cup { Arr(s) : s \in SeqsUpTo(LibraryItems, MaxLibraries) }
FileItems == { File("a.sol", "contract A {}"), File("b.sol", "contract B {}") }
SourcesInputs == { Undefined } \cup { Arr(s) : s \in SeqsUpTo(FileItems, MaxFiles) }
UnsupportedTags == { "unknown-method", "" }

OptimizationRunsText == { Str("200"), Str("1000") }
OptimizationRunsNumber == { Num(200), Num(0) }

FlattenedCodeForm(y, n, c, e, o, r, s, a, g, l) ==
  [ method |-> Method("flattened-code"), is_yul |-> y, name |-> n, compiler |-> c,
    evm_version |-> e, is_optimization_enabled |-> o, optimization_runs |-> r, code |-> s,
    autodetect_constructor_args |-> a, constructor_args |-> g ] @@ Optional("libraries", l)

StandardInputForm(n, c, a, g, f) ==
  [ method |-> Method("standard-input"), name |-> n, compiler |-> c,
    autodetect_constructor_args |-> a, constructor_args |-> g ] @@ Optional("sources", f)

SourcifyForm(f, i) ==
  [ method |-> Method("sourcify") ] @@ Optional("sources", f) @@ Optional("contract_index", i)

MultiPartForm(c, e, o, r, f, l) ==
  [ method |-> Method("multi-part"), compiler |-> c, evm_version |-> e,
    is_optimization_enabled |-> o, optimization_runs |-> r ]
    @@ Optional("sources", f) @@ Optional("libraries", l)

VyperCodeForm(n, c, s, g) ==
  [ method |-> Method("vyper-code"), name |-> n, compiler |-> c, code |-> s,
    constructor_args |-> g ]

VyperMultiPartForm(c, e, f) ==
  [ method |-> Method("vyper-multi-part"), compiler |-> c, evm_version |-> e ]
    @@ Optional("sources", f)

\* A form whose tag is none of the six, carrying the fields of a variant.
Retag(d, u) == [ d EXCEPT !.method = Method(u) ]

StandardInputForms ==
  { StandardInputForm(n, c, a, g, f) :
      n \in NameInputs, c \in CompilerInputs, a \in Booleans, g \in ConstructorArgsInputs,
      f \in SourcesInputs }

SourcifyForms == { SourcifyForm(f, i) : f \in SourcesInputs, i \in ContractIndexInputs }

VyperCodeForms ==
  { VyperCodeForm(n, c, s, g) :
      n \in NameInputs, c \in CompilerInputs, s \in CodeInputs, g \in ConstructorArgsInputs }

UnsupportedForms ==
  { Retag(d, u) : d \in StandardInputForms \cup SourcifyForms \cup VyperCodeForms,
                  u \in UnsupportedTags }

\* The form data is any form of the input space.
IsForm(d) ==
  \/ \E y \in Booleans, n \in NameInputs, c \in CompilerInputs, e \in EvmVersionInputs,
        o \in Booleans, r \in OptimizationRunsText, s \in CodeInputs, a \in Booleans,
        g \in ConstructorArgsInputs, l \in LibrariesInputs :
       d = FlattenedCodeForm(y, n, c, e, o, r, s, a, g, l)
  \/ d \in StandardInputForms
  \/ d \in SourcifyForms
  \/ \E c \in CompilerInputs, e \in EvmVersionInputs, o \in Booleans,
        r \in OptimizationRunsNumber, f \in SourcesInputs, l \in LibrariesInputs :
       d = MultiPartForm(c, e, o, r, f, l)
  \/ d \in VyperCodeForms
  \/ \E c \in CompilerInputs, e \in EvmVersionInputs, f \in SourcesInputs :
       d = VyperMultiPartForm(c, e, f)
  \/ d \in UnsupportedForms

\* The shapes of the bodies the builder returns on the forms of a tag.
ShapesOf(tag) ==
  CASE tag = "flattened-code" ->
         { prepareRequestBody(FlattenedCodeForm(y, n, c, e, o, r, s, a, g, l)).shape :
             y \in Booleans, n \in NameInputs, c \in CompilerInputs, e \in EvmVersionInputs,
             o \in Booleans, r \in OptimizationRunsText, s \in CodeInputs, a \in Booleans,
             g \in ConstructorArgsInputs, l \in LibrariesInputs }
    [] tag = "standard-input" -> { prepareRequestBody(d).shape : d \in StandardInputForms }
    [] tag = "sourcify" -> { prepareRequestBody(d).shape : d \in SourcifyForms }
    [] tag = "multi-part" ->
         { prepareRequestBody(MultiPartForm(c, e, o, r, f, l)).shape :
             c \in CompilerInputs, e \in EvmVersionInputs, o \in Booleans,
             r \in OptimizationRunsNumber, f \in SourcesInputs, l \in LibrariesInputs }
    [] tag = "vyper-code" -> { prepareRequestBody(d).shape : d \in VyperCodeForms }
    [] tag = "vyper-multi-part" ->
         { prepareRequestBody(VyperMultiPartForm(c, e, f)).shape :
             c \in CompilerInputs, e \in EvmVersionInputs, f \in SourcesInputs }
    [] OTHER ->
         { prepareRequestBody(d).shape : d \in { x \in UnsupportedForms : x.method.value = tag } }

(***************************************************************************)
(* The builder applied to a form.                                          *)
(***************************************************************************)
InitBody ==
  /\ IsForm(data)
  /\ body = NoBody
  /\ methods = SUPPORTED_VERIFICATION_METHODS
  /\ errors = << >>
  /\ formErrors = NoPairs

PrepareRequestBody ==
  /\ body = NoBody
  /\ body' = prepareRequestBody(data)
  /\ UNCHANGED <<data, methods, errors, formErrors>>

NextBody == PrepareRequestBody

SpecBody == InitBody /\ [][NextBody]_vars

\* The field keys of a body: the properties of a plain mapping (a property whose
\* value is undefined included), the entry names of a multipart container.
Keys(b) ==
  IF b.shape = "plain" THEN DOMAIN b.fields
  ELSE { b.entries[i].name : i \in 1..Len(b.entries) }

Built == body # NoBody

Tag == data.method.value

\* The libraries list of the form is empty or undefined.
NoLibraries == ~Truthy(Get(data, "libraries")) \/ Get(data, "libraries").v = << >>

\* The source list of the form, empty when the list is undefined.
SourceList == IF Truthy(Get(data, "sources")) THEN Get(data, "sources").v ELSE << >>

\* The entries of a multipart body that hold a file, in the container's order.
FileEntries(b) == SelectSeq(b.entries, LAMBDA e : e.value.t = "file")

\* The entry of a multipart body under a name.
Entry(b, name) == CHOOSE e \in { b.entries[i] : i \in 1..Len(b.entries) } : e.name = name

MultipartTags == { "standard-input", "sourcify", "multi-part", "vyper-multi-part" }

(***************************************************************************)
(* C1 as stated: on the default value of each of the six method tags the   *)
(* body has exactly the keys of the field-mapping table, the flattened-code*)
(* body having no libraries key.                                           *)
(***************************************************************************)
C1_TableKeys ==
  [ m \in SupportedTags |->
      CASE m = "flattened-code" ->
             { "compiler_version", "source_code", "is_optimization_enabled", "is_yul_contract",
               "optimization_runs", "contract_name", "evm_version",
               "autodetect_constructor_args", "constructor_args" }
        [] m = "standard-input" ->
             { "compiler_version", "contract_name", "autodetect_constructor_args", "constructor_args" }
        [] m = "sourcify" -> { }
        [] m = "multi-part" ->
             { "compiler_version", "evm_version", "is_optimization_enabled", "optimization_runs" }
        [] m = "vyper-code" ->
             { "compiler_version", "source_code", "contract_name", "constructor_args" }
        [] m = "vyper-multi-part" -> { "compiler_version", "evm_version" } ]

C3_OptimizationRuns ==
  (Built /\ Tag = "multi-part") =>
    ("optimization_runs" \in Keys(body) <=> data.is_optimization_enabled = Bool(TRUE))

C3_Witness ==
  /\ Built
  /\ Tag = "multi-part"
  /\ data.is_optimization_enabled = Bool(FALSE)
  /\ data.optimization_runs = Num(200)
  /\ "optimization_runs" \notin Keys(body)

(***************************************************************************)
(* C4: for the four multipart methods a source list of N files gives       *)
(* exactly N file entries, keyed files[0] .. files[N-1], the entry under   *)
(* files[i] being the i-th file; no file entry without files.              *)
(***************************************************************************)
C4_FileKeys == << "files[0]", "files[1]", "files[2]", "files[3]", "files[4]", "files[5]" >>

C4_FileEntries ==
  (Built /\ Tag \in MultipartTags) =>
    /\ Len(FileEntries(body)) = Len(SourceList)
    /\ \A i \in 1..Len(SourceList) :
         /\ FileEntries(body)[i].name = C4_FileKeys[i]
         /\ FileEntries(body)[i].value = SourceList[i]
    /\ { k \in Keys(body) : \E i \in 1..Len(C4_FileKeys) : k = C4_FileKeys[i] }
         = { C4_FileKeys[i] : i \in 1..Len(SourceList) }

C4_Witness ==
  /\ Built
  /\ Tag = "multi-part"
  /\ Len(SourceList) = 2
  /\ SourceList[1] # SourceList[2]
  /\ Len(FileEntries(body)) = 2

(***************************************************************************)
(* C5: a sourcify body has no chosen_contract_index when no contract index *)
(* was selected and has chosen_contract_index equal to                     *)
(* contract_index.value when one was selected.                             *)
(***************************************************************************)
C5_ChosenContractIndex ==
  (Built /\ Tag = "sourcify") =>
    IF "contract_index" \in DOMAIN data
    THEN /\ "chosen_contract_index" \in Keys(body)
         /\ Entry(body, "chosen_contract_index").value = data.contract_index.value
    ELSE "chosen_contract_index" \notin Keys(body)

C5_Witness ==
  /\ Built
  /\ Tag = "sourcify"
  /\ "contract_index" \in DOMAIN data
  /\ data.contract_index.value = Str("0")
  /\ "chosen_contract_index" \in Keys(body)

(***************************************************************************)
(* C6: the shape of the body is a function of the method tag alone: every  *)
(* form of the same tag yields the shape this form yields; flattened-code  *)
(* and vyper-code yield a plain mapping, the other four tags a multipart   *)
(* container.                                                              *)
(***************************************************************************)
ShapesByTag == [ tag \in SupportedTags \cup UnsupportedTags |-> ShapesOf(tag) ]

C6_ShapeByTag ==
  Built =>
    /\ ShapesByTag[Tag] = { body.shape }
    /\ Tag \in { "flattened-code", "vyper-code" } => body.shape = "plain"
    /\ Tag \in MultipartTags => body.shape = "multipart"

C6_Witness ==
  /\ Built
  /\ Tag = "sourcify"
  /\ SourceList = << >>
  /\ "contract_index" \notin DOMAIN data
  /\ body.shape = "multipart"

(***************************************************************************)
(* C7: a form whose method tag is none of the six yields a plain mapping   *)
(* with no fields, whatever its other fields hold.                         *)
(***************************************************************************)
C7_UnsupportedEmpty ==
  (Built /\ Tag \notin SupportedTags) => (body.shape = "plain" /\ Keys(body) = { })

C7_Witness ==
  /\ Built
  /\ Tag = "unknown-method"
  /\ Len(SourceList) = 2
  /\ body.shape = "plain"

(***************************************************************************)
(* Array.prototype.sort with sortVerificationMethods as comparator, on a   *)
(* permutation of the six tags.  The sorting algorithm is left open: a     *)
(* step exchanges two neighbours the comparator puts in the wrong order,   *)
(* and the sort is over when no such neighbours are left.                  *)
(***************************************************************************)
Permutations6 ==
  { p \in [1..Len(SUPPORTED_VERIFICATION_METHODS) -> SupportedTags] :
      \A i, j \in DOMAIN p : p[i] = p[j] => i = j }

InitSort ==
  /\ methods \in Permutations6
  /\ data = DefaultFlattenedCode
  /\ body = NoBody
  /\ errors = << >>
  /\ formErrors = NoPairs

SortStep ==
  /\ \E i \in 1..(Len(methods) - 1) :
       /\ sortVerificationMethods(methods[i], methods[i + 1]) > 0
       /\ methods' = [methods EXCEPT ![i] = methods[i + 1], ![i + 1] = methods[i]]
  /\ UNCHANGED <<data, body, errors, formErrors>>

NextSort == SortStep

SpecSort == InitSort /\ [][NextSort]_vars

SortOver ==
  \A i \in 1..(Len(methods) - 1) : sortVerificationMethods(methods[i], methods[i + 1]) <= 0

(***************************************************************************)
(* C8: sorting a permutation of the six tags with sortVerificationMethods  *)
(* ends in the order flattened-code, standard-input, sourcify, multi-part, *)
(* vyper-code, vyper-multi-part; over the six tags the comparator returns  *)
(* -1, 0 or 1 as the positions of the tags in that order compare, 0 only   *)
(* for equal tags, and is antisymmetric and transitive.                    *)
(***************************************************************************)
C8_Order ==
  << "flattened-code", "standard-input", "sourcify", "multi-part", "vyper-code", "vyper-multi-part" >>

C8_Position(m) == CHOOSE i \in 1..Len(C8_Order) : C8_Order[i] = m

C8_Sign(n) == IF n > 0 THEN 1 ELSE IF n < 0 THEN -1 ELSE 0

C8_SortOrder ==
  /\ SortOver => methods = C8_Order
  /\ \A a, b \in { methods[i] : i \in 1..Len(methods) } :
       /\ sortVerificationMethods(a, b) = C8_Sign(C8_Position(a) - C8_Position(b))
       /\ sortVerificationMethods(a, b) = 0 <=> a = b
       /\ sortVerificationMethods(a, b) = -sortVerificationMethods(b, a)
       /\ \A c \in { methods[i] : i \in 1..Len(methods) } :
            (sortVerificationMethods(a, b) <= 0 /\ sortVerificationMethods(b, c) <= 0)
              => sortVerificationMethods(a, c) <= 0

C8_Witness ==
  /\ SortOver
  /\ methods[1] = "flattened-code"
  /\ methods[6] = "vyper-multi-part"

(***************************************************************************)
(* The remapper applied to an error payload.                               *)
(***************************************************************************)
ErrorKeys == DOMAIN API_ERROR_TO_FORM_FIELD
KeyInputs == ErrorKeys \cup { "optimization_runs" }
MessageInputs == { << "o", "l", "d" >>, << "n", "o" >> }
ValueInputs == SeqsUpTo(MessageInputs, MaxMessages)

\* A payload of n properties with the given keys and values.
Payload(n, keys, values) == [ i \in 1..n |-> [key |-> keys[i], value |-> values[i]] ]

InitErrors ==
  /\ \E n \in 0..MaxErrorKeys :
       \E keys \in [1..n -> KeyInputs], values \in [1..n -> ValueInputs] :
         /\ \A i, j \in 1..n : keys[i] = keys[j] => i = j
         /\ errors = Payload(n, keys, values)
  /\ formErrors = NoPairs
  /\ data = DefaultFlattenedCode
  /\ body = NoBody
  /\ methods = SUPPORTED_VERIFICATION_METHODS

FormatSocketErrors ==
  /\ ~formErrors.done
  /\ formErrors' = [done |-> TRUE, pairs |-> formatSocketErrors(errors)]
  /\ UNCHANGED <<data, body, methods, errors>>

NextErrors == FormatSocketErrors

SpecErrors == InitErrors /\ [][NextErrors]_vars

(***************************************************************************)
(* C9: for a payload whose keys are among the five backend field           *)
(* identifiers there is one pair per payload key, in the payload's key     *)
(* order; the field path of the pair is the dictionary entry of the key    *)
(* and its message is the key's message strings joined with ',' in their   *)
(* original order.                                                         *)
(***************************************************************************)
C9_Field ==
  [ k \in { "contract_source_code", "files", "compiler_version", "constructor_arguments", "name" } |->
      CASE k = "contract_source_code" -> "code"
        [] k = "files" -> "sources"
        [] k = "compiler_version" -> "compiler"
        [] k = "constructor_arguments" -> "constructor_args"
        [] k = "name" -> "name" ]

\* Where the k-th string starts in the joined message (zero-based).
RECURSIVE C9_Offset(_, _)
C9_Offset(value, k) ==
  IF k = 1 THEN 0 ELSE C9_Offset(value, k - 1) + Len(value[k - 1]) + 1

C9_IsJoined(message, value) ==
  /\ Len(message) = IF value = << >> THEN 0
                    ELSE C9_Offset(value, Len(value)) + Len(value[Len(value)])
  /\ \A k \in 1..Len(value) :
       /\ SubSeq(message, C9_Offset(value, k) + 1, C9_Offset(value, k) + Len(value[k])) = value[k]
       /\ k < Len(value) => message[C9_Offset(value, k) + Len(value[k]) + 1] = ","

C9_KnownKeys == \A i \in 1..Len(errors) : errors[i].key \in DOMAIN C9_Field

C9_FormattedPairs ==
  (formErrors.done /\ C9_KnownKeys) =>
    /\ Len(formErrors.pairs) = Len(errors)
    /\ \A i \in 1..Len(errors) :
         /\ formErrors.pairs[i][1] = Str(C9_Field[errors[i].key])
         /\ C9_IsJoined(formErrors.pairs[i][2].message, errors[i].value)

C9_Witness ==
  /\ formErrors.done
  /\ Len(errors) = 2
  /\ errors[1].key = "name"
  /\ errors[2].key = "compiler_version"
  /\ errors[2].value = << << "o", "l", "d" >>, << "n", "o" >> >>
  /\ formErrors.pairs[2][2].message = << "o", "l", "d", ",", "n", "o" >>

(***************************************************************************)
(* The fields of each form variant: those the builder reads.               *)
(***************************************************************************)
C10_VariantFields ==
  [ m \in SupportedTags |->
      CASE m = "flattened-code" ->
             { "compiler", "code", "is_optimization_enabled", "is_yul", "optimization_runs",
               "name", "libraries", "evm_version", "autodetect_constructor_args",
               "constructor_args" }
        [] m = "standard-input" ->
             { "compiler", "name", "autodetect_constructor_args", "constructor_args", "sources" }
        [] m = "sourcify" -> { "sources", "contract_index" }
        [] m = "multi-part" ->
             { "compiler", "evm_version", "is_optimization_enabled", "optimization_runs",
               "libraries", "sources" }
        [] m = "vyper-code" -> { "compiler", "code", "name", "constructor_args" }
        [] m = "vyper-multi-part" -> { "compiler", "evm_version", "sources" } ]

C10_Flags == { "is_optimization_enabled", "autodetect_constructor_args" }
C10_Collections == { "sources", "libraries" }
C10_Has(d, f) == f \in DOMAIN d

(***************************************************************************)
(* C10 as stated: a form that is the default value of a method tag has     *)
(* that tag, every field of its variant, the flags true, optimization_runs *)
(* the number 200, the collections empty and every string field empty.     *)
(***************************************************************************)
C10_DefaultsAsStated ==
  \A m \in SupportedTags :
    data = DEFAULT_VALUES[m] =>
      /\ data.method.value = m
      /\ C10_VariantFields[m] \subseteq DOMAIN data
      /\ \A f \in C10_Flags : C10_Has(data, f) => data[f] = Bool(TRUE)
      /\ C10_Has(data, "optimization_runs") => data.optimization_runs = Num(200)
      /\ \A f \in C10_Collections : C10_Has(data, f) => data[f] = Arr(<< >>)
      /\ \A f \in DOMAIN data \ { "method" } : data[f].t = "string" => data[f].v = ""

(***************************************************************************)
(* C10 amended: a form that is the default value of a method tag has that  *)
(* tag and every field of its variant except sourcify's contract_index,    *)
(* which is absent; the flags are true; optimization_runs is the number    *)
(* 200 in multi-part and the string '200' in flattened-code; the           *)
(* collections are empty and every string field other than                 *)
(* optimization_runs is empty.                                             *)
(***************************************************************************)
C10_Defaults ==
  \A m \in SupportedTags :
    data = DEFAULT_VALUES[m] =>
      /\ data.method.value = m
      /\ DOMAIN data = { "method" } \cup (C10_VariantFields[m] \ { "contract_index" })
      /\ \A f \in C10_Flags : C10_Has(data, f) => data[f] = Bool(TRUE)
      /\ m = "multi-part" => data.optimization_runs = Num(200)
      /\ m = "flattened-code" => data.optimization_runs = Str("200")
      /\ \A f \in C10_Collections : C10_Has(data, f) => data[f] = Arr(<< >>)
      /\ \A f \in DOMAIN data \ { "method", "optimization_runs" } :
           data[f].t = "string" => data[f].v = ""

C10_Witness ==
  /\ Built
  /\ data = DEFAULT_VALUES["multi-part"]
  /\ Entry(body, "optimization_runs").value = Str("200")

====
